---- MODULE Spec2Model ----
(***************************************************************************)
(* Model of the BAO profile tree notebook                                  *)
(* (src/MODEL/bao_beslisboom_sourcecode.py): build_tree, prune_tree,       *)
(* filter_leaves_under_minimum_depth and export_profiles_to_dict_from_tree *)
(* run one after the other on one networkx DiGraph.                        *)
(*                                                                         *)
(* The dataframe df is a bag of records, kept as a sequence in canonical   *)
(* order.  A record holds one value per feature of features_ordered and    *)
(* the two outcome flags aanvrager_hit and visumaanvraag_beslissing_       *)
(* negatief.  The DiGraph is the record tree = [nodes, edges, attr].       *)
(***************************************************************************)
EXTENDS Integers, Sequences, FiniteSets, TLC

\* ------------------------------------------------------------- constants
\* BAO_PROFILES_DIMENSIONS_ORDERED (its value is redacted in the notebook):
\* the feature (column) names in order, here two columns named 1 and 2.
features_ordered == <<1, 2>>

NumFeatures == Len(features_ordered)

\* The values a feature column holds in the tables considered.
FeatureValues == {1, 2}

NumValues == Cardinality(FeatureValues)

\* ---------------------------------------------------------------- bounds
\* Rows in the table, minimal_groupsize, min_depth_required and the number
\* of prune_tree calls on one tree.
MaxRecords == 4
MaxGroupSize == 2
MaxMinDepth == 3
MaxPruneCalls == 2

\* The rows a dataframe may hold.
Records == [vals : [1..NumFeatures -> FeatureValues], hit : {0, 1}, neg : {0, 1}]

\* The threshold settings (percentages 0-100) a run may be configured with.
ThresholdConfigs ==
    { [chance_max_hit |-> 25, chance_max_refusal |-> 50, risk_min_hit |-> 75] }

VARIABLES
    pc,                 \* where the notebook is
    err,                \* the exception that ended the run, or "none"
    df,                 \* the dataframe
    params,             \* build_tree's thresholds and minimal_groupsize
    index,              \* build_tree: layers built so far (enumerate index)
    current_node_number,
    node_registry,      \* build_tree: hash -> node number
    tree,               \* the DiGraph
    min_depth_required,
    last_run_clear,     \* prune_tree
    parents_of_leaves,  \* prune_tree: parents still to visit in this pass
    paths_to_leaves,    \* filter: paths still to visit
    walk,               \* filter: rest of path[::-1] being walked
    profiles,           \* what export_profiles_to_dict_from_tree returned
    prune_calls,        \* number of prune_tree calls made
    snap,               \* the tree as it was when the current call began
    pass_start_count    \* prune_tree: len(tree) when the current pass began

vars == <<pc, err, df, params, index, current_node_number, node_registry, tree,
          min_depth_required, last_run_clear, parents_of_leaves,
          paths_to_leaves, walk, profiles, prune_calls, snap, pass_start_count>>

\* ------------------------------------------------------- sequence helpers
RECURSIVE SetToSeq(_)
SetToSeq(S) ==
    IF S = {} THEN <<>>
    ELSE LET x == CHOOSE y \in S : TRUE IN <<x>> \o SetToSeq(S \ {x})

RECURSIVE Reverse(_)
Reverse(s) == IF s = <<>> THEN <<>> ELSE Reverse(Tail(s)) \o <<Head(s)>>

RECURSIVE LexLess(_, _)
LexLess(a, b) ==
    IF a = <<>> \/ b = <<>> THEN a = <<>> /\ b # <<>>
    ELSE IF Head(a) # Head(b) THEN Head(a) < Head(b)
    ELSE LexLess(Tail(a), Tail(b))

\* The place of a record in the canonical order of the bag df.
RecordRank(r) ==
    LET RECURSIVE Enc(_, _)
        Enc(s, acc) == IF s = <<>> THEN acc
                       ELSE Enc(Tail(s), acc * (NumValues + 1) + Head(s))
    IN Enc(r.vals, 0) * 4 + r.hit * 2 + r.neg

\* ------------------------------------------------------------ the DiGraph
EmptyGraph == [nodes |-> {}, edges |-> {}, attr |-> <<>>]

\* tree.add_node(n, **a)
AddNode(G, n, a) ==
    [G EXCEPT !.nodes = @ \cup {n},
              !.attr = [x \in G.nodes \cup {n} |-> IF x = n THEN a ELSE G.attr[x]]]

\* Mutant: the edge runs from the child to the parent.
AddEdgeReversed(G, u, v) == [G EXCEPT !.edges = @ \cup {<<v, u>>}]

\* tree.add_edge(parent_node_number, current_node_number)
AddEdge(G, u, v) == [G EXCEPT !.edges = @ \cup {<<u, v>>}]

\* Mutant: the node goes, its incident edges stay.
RemoveNodeKeepEdges(G, n) ==
    [nodes |-> G.nodes \ {n},
     edges |-> G.edges,
     attr  |-> [x \in G.nodes \ {n} |-> G.attr[x]]]

\* nx.DiGraph.remove_node: the node, its attributes and its incident edges.
RemoveNode(G, n) ==
    [nodes |-> G.nodes \ {n},
     edges |-> {e \in G.edges : e[1] # n /\ e[2] # n},
     attr  |-> [x \in G.nodes \ {n} |-> G.attr[x]]]

RECURSIVE RemoveNodes(_, _)
RemoveNodes(G, S) ==
    IF S = {} THEN G
    ELSE LET n == CHOOSE x \in S : TRUE IN RemoveNodes(RemoveNode(G, n), S \ {n})

Successors(G, n) == {e[2] : e \in {d \in G.edges : d[1] = n}}
Predecessors(G, n) == {e[1] : e \in {d \in G.edges : d[2] = n}}
OutDegree(G, n) == Cardinality(Successors(G, n))
InDegree(G, n) == Cardinality(Predecessors(G, n))

\* nx.shortest_path(G, root, x) in a graph where x is reached from root by
\* parent edges only: the node list root..x; <<>> stands for the exception
\* (NodeNotFound, NetworkXNoPath) raised when there is no such path.
RECURSIVE PathUp(_, _, _, _)
PathUp(G, root, x, fuel) ==
    IF x = root THEN <<root>>
    ELSE IF fuel = 0 \/ Predecessors(G, x) = {} THEN <<>>
    ELSE LET p == CHOOSE q \in Predecessors(G, x) : TRUE
             up == PathUp(G, root, p, fuel - 1)
         IN IF up = <<>> THEN <<>> ELSE up \o <<x>>

ShortestPath(G, root, x) ==
    IF root \notin G.nodes \/ x \notin G.nodes THEN <<>>
    ELSE PathUp(G, root, x, Cardinality(G.nodes))

\* ------------------------------------------------------------- build_tree
\* json.dumps of a feature -> value dict, then md5: the dict is the sequence
\* of its (feature, value) items in insertion order; the digest is taken to
\* be collision free and is the number that spells the items out.
NodeHash(items) ==
    LET RECURSIVE Enc(_, _)
        Enc(s, acc) ==
            IF s = <<>> THEN acc
            ELSE Enc(Tail(s),
                     acc * (NumFeatures * NumValues + 1)
                       + (Head(s)[1] - 1) * NumValues + Head(s)[2])
    IN Enc(items, 0)

\* current_depth = index + 1
CurrentDepth(i) == i + 1

\* features_ordered[0:current_depth]
FeaturesToCurrentDepth(depth) == SubSeq(features_ordered, 1, depth)

\* The groupBy key of a record: its values for the grouping features.
GroupKey(r, feats) == [i \in 1..Len(feats) |-> r.vals[feats[i]]]

RECURSIVE SumSeq(_)
SumSeq(s) == IF s = <<>> THEN 0 ELSE Head(s) + SumSeq(Tail(s))

\* Mutant: the risk condition is tested before the chance condition.
ProfileTypeRiskFirst(hit_count, neg_count, group_size, p) ==
    IF 100 * hit_count >= p.risk_min_hit * group_size
    THEN "risk"
    ELSE IF /\ 100 * hit_count <= p.chance_max_hit * group_size
            /\ 100 * neg_count <= p.chance_max_refusal * group_size
    THEN "chance"
    ELSE "inbetween"

\* The when/when/otherwise column profile_type; the averages are compared
\* as fractions: avg <= t/100 iff 100 * sum <= t * count.
ProfileType(hit_count, neg_count, group_size, p) ==
    IF /\ 100 * hit_count <= p.chance_max_hit * group_size
       /\ 100 * neg_count <= p.chance_max_refusal * group_size
    THEN "chance"
    ELSE IF 100 * hit_count >= p.risk_min_hit * group_size
    THEN "risk"
    ELSE "inbetween"

\* One row of df.groupBy(feats).agg(...) for the group with key k.
GroupRow(d, feats, k, p) ==
    LET members == SelectSeq(d, LAMBDA r : GroupKey(r, feats) = k)
        hits == SumSeq([i \in 1..Len(members) |-> members[i].hit])
        negs == SumSeq([i \in 1..Len(members) |-> members[i].neg])
    IN [vals |-> k,
        group_size |-> Len(members),
        applicant_hit_count |-> hits,
        refusal_count |-> negs,
        profile_type |-> ProfileType(hits, negs, Len(members), p)]

\* Mutant: the groups of at most minimal_groupsize rows are kept.
GroupQualifiesAtMost(row, p) == row.group_size <= p.minimal_groupsize

\* group_size >= minimal_groupsize
GroupQualifies(row, p) == row.group_size >= p.minimal_groupsize

\* The rows of the grouped, aggregated, filtered and classified dataframe,
\* before they are sorted: Spark holds them in no particular order.
GroupRows(d, feats, p) ==
    LET keys == {GroupKey(d[i], feats) : i \in 1..Len(d)}
        rows == {GroupRow(d, feats, k, p) : k \in keys}
    IN {row \in rows : GroupQualifies(row, p)}

\* Mutant: the rows are collected in the order Spark holds them.
RowsAsHeld(rows) == rows

\* .sort(features_to_current_depth, ascending=True)
SortRows(rows) == SortSeq(rows, LAMBDA a, b : LexLess(a.vals, b.vals))

\* df_feature_combinations: grouped, aggregated, filtered on group size,
\* classified, sorted ascending on the grouping features and collected.
FeatureCombinations(d, feats, p) == SortRows(SetToSeq(GroupRows(d, feats, p)))

\* current_feature_combination_values: feature -> value, in feature order.
CombinationValues(row, feats) == [i \in 1..Len(feats) |-> <<feats[i], row.vals[i]>>]

\* Mutant: the parent is looked up under the empty combination.
ParentIsAlwaysRoot(items, current_feature) == <<>>

\* parent_feature_combination_values: the items whose key is not the
\* current feature.
ParentCombinationValues(items, current_feature) ==
    SelectSeq(items, LAMBDA kv : kv[1] # current_feature)

\* Mutant: the key is the value of the first feature at every depth.
NodeKeyOfFirstFeature(row, depth) == ToString(row.vals[1])

\* The key attribute: the value of the current feature, as a string.
NodeKey(row, depth) == ToString(row.vals[depth])

\* Mutant: node_registry.get(parent_node_hash, 0): a combination without a
\* registered parent hangs under the root.
ParentNodeOrRoot(reg, parent_node_hash) ==
    IF parent_node_hash \in DOMAIN reg THEN <<reg[parent_node_hash]>> ELSE <<0>>

\* node_registry[parent_node_hash]: <<parent_node_number>>, or <<>> for the
\* KeyError the subscript raises on an unregistered hash.
ParentNode(reg, parent_node_hash) ==
    IF parent_node_hash \in DOMAIN reg THEN <<reg[parent_node_hash]>> ELSE <<>>

\* The body of `for current_feature_combination in df_feature_combinations`,
\* folded over the rows of one layer.  st = [tree, reg, num, err].
RECURSIVE AddRows(_, _, _, _)
AddRows(rows, feats, depth, st) ==
    IF rows = <<>> \/ st.err # "none" THEN st
    ELSE
      LET row == Head(rows)
          num == st.num + 1
          current_feature == feats[depth]
          items == CombinationValues(row, feats)
          parent_items == ParentCombinationValues(items, current_feature)
          current_node_hash == NodeHash(items)
          parent_node_hash == NodeHash(parent_items)
          found == ParentNode(st.reg, parent_node_hash)
      IN IF found = <<>>
         THEN [st EXCEPT !.num = num, !.err = "KeyError"]
         ELSE
           LET parent_node_number == found[1]
               reg == [h \in DOMAIN st.reg \cup {current_node_hash} |->
                          IF h = current_node_hash THEN num ELSE st.reg[h]]
               a == [depth |-> depth,
                     key |-> NodeKey(row, depth),
                     profile_type |-> row.profile_type,
                     total_count |-> row.group_size,
                     hit_counts |-> row.applicant_hit_count,
                     refusal_count |-> row.refusal_count]
               G == AddEdge(AddNode(st.tree, num, a), parent_node_number, num)
           IN AddRows(Tail(rows), feats, depth,
                      [tree |-> G, reg |-> reg, num |-> num, err |-> "none"])

RootAttr(d) ==
    [depth |-> 0, key |-> "Alle aanvragen", profile_type |-> "inbetween",
     total_count |-> Len(d)]

\* ------------------------------------------------------------------ Init
Init ==
    /\ pc = "load"
    /\ err = "none"
    /\ df = <<>>
    /\ params = [chance_max_hit |-> 0, chance_max_refusal |-> 0,
                 risk_min_hit |-> 0, minimal_groupsize |-> 0]
    /\ index = 0
    /\ current_node_number = 0
    /\ node_registry = <<>>
    /\ tree = EmptyGraph
    /\ min_depth_required = 0
    /\ last_run_clear = FALSE
    /\ parents_of_leaves = {}
    /\ paths_to_leaves = {}
    /\ walk = <<>>
    /\ profiles = <<>>
    /\ prune_calls = 0
    /\ snap = EmptyGraph
    /\ pass_start_count = 0

\* df = spark.table(...): the table holds one more row.
LoadRecord ==
    /\ pc = "load"
    /\ Len(df) < MaxRecords
    /\ \E r \in Records :
         /\ IF df = <<>> THEN TRUE
            ELSE RecordRank(df[Len(df)]) <= RecordRank(r)
         /\ df' = Append(df, r)
    /\ UNCHANGED <<pc, err, params, index, current_node_number, node_registry,
                   tree, min_depth_required, last_run_clear, parents_of_leaves,
                   paths_to_leaves, walk, profiles, prune_calls, snap,
                   pass_start_count>>

\* build_tree is called: the root node and its registry entry.
CallBuildTree ==
    /\ pc = "load"
    /\ \E t \in ThresholdConfigs, m \in 1..MaxGroupSize :
         params' = [chance_max_hit |-> t.chance_max_hit,
                    chance_max_refusal |-> t.chance_max_refusal,
                    risk_min_hit |-> t.risk_min_hit,
                    minimal_groupsize |-> m]
    /\ index' = 0
    /\ current_node_number' = 0
    /\ tree' = AddNode(EmptyGraph, 0, RootAttr(df))
    /\ node_registry' = (NodeHash(<<>>) :> 0)
    /\ pc' = "build"
    /\ UNCHANGED <<err, df, min_depth_required, last_run_clear,
                   parents_of_leaves, paths_to_leaves, walk, profiles,
                   prune_calls, snap, pass_start_count>>

\* build_tree takes its thresholds and minimal_groupsize as plain arguments
\* and tests none of them: any numbers can be passed, also thresholds under
\* which a group is chance and risk at once, a threshold above 100 and a
\* minimal_groupsize of 0.
ThresholdArguments ==
    [chance_max_hit : {25, 50}, chance_max_refusal : {50},
     risk_min_hit : {50, 75, 150}]

CallBuildTreeAnyArguments ==
    /\ pc = "load"
    /\ \E t \in ThresholdArguments, m \in 0..MaxGroupSize :
         params' = [chance_max_hit |-> t.chance_max_hit,
                    chance_max_refusal |-> t.chance_max_refusal,
                    risk_min_hit |-> t.risk_min_hit,
                    minimal_groupsize |-> m]
    /\ index' = 0
    /\ current_node_number' = 0
    /\ tree' = AddNode(EmptyGraph, 0, RootAttr(df))
    /\ node_registry' = (NodeHash(<<>>) :> 0)
    /\ pc' = "build"
    /\ UNCHANGED <<err, df, min_depth_required, last_run_clear,
                   parents_of_leaves, paths_to_leaves, walk, profiles,
                   prune_calls, snap, pass_start_count>>

\* One iteration of `for index, current_feature in enumerate(features_ordered)`.
BuildLayer ==
    /\ pc = "build"
    /\ index < Len(features_ordered)
    /\ LET current_depth == CurrentDepth(index)
           feats == FeaturesToCurrentDepth(current_depth)
       IN \E st \in {AddRows(FeatureCombinations(df, feats, params), feats,
                             current_depth,
                             [tree |-> tree, reg |-> node_registry,
                              num |-> current_node_number, err |-> "none"])} :
          /\ tree' = st.tree
          /\ node_registry' = st.reg
          /\ current_node_number' = st.num
          /\ err' = st.err
          /\ pc' = IF st.err = "none" THEN "build" ELSE "error"
          /\ index' = index + 1
    /\ UNCHANGED <<df, params, min_depth_required, last_run_clear,
                   parents_of_leaves, paths_to_leaves, walk, profiles,
                   prune_calls, snap, pass_start_count>>

\* return tree, parameter_set: build_tree's locals are gone.
BuildReturn ==
    /\ pc = "build"
    /\ index = Len(features_ordered)
    /\ pc' = "built"
    /\ df' = <<>>
    /\ node_registry' = <<>>
    /\ index' = 0
    /\ current_node_number' = 0
    /\ UNCHANGED <<err, params, tree, min_depth_required, last_run_clear,
                   parents_of_leaves, paths_to_leaves, walk, profiles,
                   prune_calls, snap, pass_start_count>>

\* df is lazy (spark.table(...).cache()): every layer runs its own Spark job
\* over the table, and between two jobs the table may have received a row.
TableAppend ==
    /\ pc = "build"
    /\ index < Len(features_ordered)
    /\ Len(df) < MaxRecords
    /\ \E r \in Records :
         df' = SortSeq(Append(df, r),
                       LAMBDA a, b : RecordRank(a) < RecordRank(b))
    /\ UNCHANGED <<pc, err, params, index, current_node_number, node_registry,
                   tree, min_depth_required, last_run_clear, parents_of_leaves,
                   paths_to_leaves, walk, profiles, prune_calls, snap,
                   pass_start_count>>

\* A notebook configured with three dimensions (its own
\* BAO_PROFILES_MIN_DEPTH_REQUIRED is 3), over tables whose first column
\* holds one value: the trees reach depth 3 under one node of depth 1.
three_features == <<1, 2, 3>>

ThreeFeatureRecords ==
    [vals : {v \in [1..Len(three_features) -> FeatureValues] : v[1] = 1},
     hit : {0, 1}, neg : {0, 1}]

\* df = spark.table(...) of that notebook: the table holds one more row.
LoadRecordOfThree ==
    /\ pc = "load"
    /\ Len(df) < MaxRecords
    /\ \E r \in ThreeFeatureRecords :
         /\ IF df = <<>> THEN TRUE
            ELSE RecordRank(df[Len(df)]) <= RecordRank(r)
         /\ df' = Append(df, r)
    /\ UNCHANGED <<pc, err, params, index, current_node_number, node_registry,
                   tree, min_depth_required, last_run_clear, parents_of_leaves,
                   paths_to_leaves, walk, profiles, prune_calls, snap,
                   pass_start_count>>

\* `for index, current_feature in enumerate(features_ordered)` as a whole,
\* from layer i + 1 on, for the given feature list.
RECURSIVE BuildLayers(_, _, _, _, _)
BuildLayers(d, features, p, i, st) ==
    IF i = Len(features) \/ st.err # "none" THEN st
    ELSE LET current_depth == CurrentDepth(i)
             feats == SubSeq(features, 1, current_depth)
         IN BuildLayers(d, features, p, i + 1,
                        AddRows(FeatureCombinations(d, feats, p), feats,
                                current_depth, st))

\* build_tree(df, features_ordered, ...) of that notebook, from the call to
\* the return.
BuildTreeOfThree ==
    /\ pc = "load"
    /\ \E t \in ThresholdConfigs, m \in 1..MaxGroupSize :
         /\ params' = [chance_max_hit |-> t.chance_max_hit,
                       chance_max_refusal |-> t.chance_max_refusal,
                       risk_min_hit |-> t.risk_min_hit,
                       minimal_groupsize |-> m]
         /\ \E st \in {BuildLayers(df, three_features, params', 0,
                                    [tree |-> AddNode(EmptyGraph, 0, RootAttr(df)),
                                     reg |-> (NodeHash(<<>>) :> 0),
                                     num |-> 0, err |-> "none"])} :
               /\ tree' = st.tree
               /\ err' = st.err
               /\ pc' = IF st.err = "none" THEN "built" ELSE "error"
    /\ df' = <<>>
    /\ UNCHANGED <<index, current_node_number, node_registry,
                   min_depth_required, last_run_clear, parents_of_leaves,
                   paths_to_leaves, walk, profiles, prune_calls, snap,
                   pass_start_count>>

\* ------------------------------------------------------------- prune_tree
Leaves(G) == {x \in G.nodes : OutDegree(G, x) = 0}

\* leaves_of_type_inbetween
LeavesOfTypeInbetween(G) ==
    {leaf \in Leaves(G) : G.attr[leaf].profile_type = "inbetween"}

\* [node for node in tree.predecessors(leaf)][0] raises IndexError for a
\* leaf without a predecessor.
LeavesWithoutParent(G) == {leaf \in Leaves(G) : Predecessors(G, leaf) = {}}

ParentsOfLeaves(G) ==
    {CHOOSE p \in Predecessors(G, leaf) : TRUE : leaf \in Leaves(G) \ LeavesWithoutParent(G)}

\* Mutant: a parent is also passed over once the tree is down to five nodes.
ParentTooShallowOrTreeSmall(G, parent_id, min_depth) ==
    G.attr[parent_id].depth < min_depth \/ Cardinality(G.nodes) <= 5

\* Mutant: the depth of the parent is not tested.
ParentNeverTooShallow(G, parent_id, min_depth) == FALSE

\* parent_depth < min_depth_required: continue
ParentTooShallow(G, parent_id, min_depth) == G.attr[parent_id].depth < min_depth

\* set(children_outdegrees) != set([0]): continue
NotAllChildrenLeaves(G, parent_id) ==
    {OutDegree(G, x) : x \in Successors(G, parent_id)} # {0}

\* Mutant: an only child is never compared with its parent.
ChildrenShareParentTypeTwoOrMore(G, parent_id) ==
    /\ Cardinality(Successors(G, parent_id)) >= 2
    /\ {G.attr[c].profile_type : c \in Successors(G, parent_id)}
           = {G.attr[parent_id].profile_type}

\* num_unique_leaf_types == 1 and list(unique_leaf_types)[0] == parent_type
ChildrenShareParentType(G, parent_id) ==
    LET unique_leaf_types == {G.attr[c].profile_type : c \in Successors(G, parent_id)}
    IN /\ Cardinality(unique_leaf_types) = 1
       /\ unique_leaf_types = {G.attr[parent_id].profile_type}

\* Mutant: the children found are not the ones removed.
NoChildren(G, parent_id) == {}

\* children = [x for x in tree.successors(parent_id)], removed one by one.
Children(G, parent_id) == Successors(G, parent_id)

\* Mutant: a removal does not reset last_run_clear.
RunClearAlways(removed) == TRUE

\* last_run_clear after `for c in leaves_of_type_inbetween`: set to True
\* before the loop and to False by every removal.
RunClear(removed) == removed = {}

\* `for parent_id in parents_of_leaves` with the set iterated in ascending
\* order of node number: the tree after the loop and whether a node went.
RECURSIVE PruneParentsAscending(_, _, _, _)
PruneParentsAscending(G, parents, min_depth, clear) ==
    IF parents = {} THEN [tree |-> G, clear |-> clear, ok |-> TRUE]
    ELSE LET parent_id == CHOOSE p \in parents : \A q \in parents : p <= q
         IN IF parent_id \notin G.nodes
            THEN [tree |-> G, clear |-> clear, ok |-> FALSE]
            ELSE IF \/ ParentTooShallow(G, parent_id, min_depth)
                    \/ NotAllChildrenLeaves(G, parent_id)
                    \/ ~ChildrenShareParentType(G, parent_id)
            THEN PruneParentsAscending(G, parents \ {parent_id}, min_depth, clear)
            ELSE PruneParentsAscending(RemoveNodes(G, Children(G, parent_id)),
                                       parents \ {parent_id}, min_depth, FALSE)

\* prune_tree as a whole with that order: the passes of the while loop until
\* one is clear; ok is FALSE when a pass raises.
RECURSIVE PruneAscending(_, _)
PruneAscending(G, min_depth) ==
    LET G1 == RemoveNodes(G, LeavesOfTypeInbetween(G))
    IN IF LeavesWithoutParent(G1) # {} THEN [tree |-> G1, ok |-> FALSE]
       ELSE LET r == PruneParentsAscending(G1, ParentsOfLeaves(G1), min_depth,
                                           RunClear(LeavesOfTypeInbetween(G)))
            IN IF ~r.ok THEN [tree |-> r.tree, ok |-> FALSE]
               ELSE IF r.clear THEN [tree |-> r.tree, ok |-> TRUE]
               ELSE PruneAscending(r.tree, min_depth)

\* prune_tree(tree, min_depth_required) is called: by the notebook after
\* build_tree, or once more on its own result.
CallPruneTree ==
    /\ \/ /\ pc = "built"
          /\ \E d \in 1..MaxMinDepth : min_depth_required' = d
       \/ /\ pc = "pruned"
          /\ prune_calls < MaxPruneCalls
          /\ UNCHANGED min_depth_required
    /\ prune_calls' = prune_calls + 1
    /\ last_run_clear' = FALSE
    /\ parents_of_leaves' = {}
    /\ snap' = tree
    /\ pass_start_count' = -1
    /\ pc' = "prune_while"
    /\ UNCHANGED <<err, df, params, index, current_node_number, node_registry,
                   tree, paths_to_leaves, walk, profiles>>

\* `while not last_run_clear` is entered: the leaves of type inbetween go,
\* then the parents of the leaves that are left are collected.
PrunePass ==
    /\ pc = "prune_while"
    /\ ~last_run_clear
    /\ \E G \in {RemoveNodes(tree, LeavesOfTypeInbetween(tree))} :
          /\ tree' = G
          /\ last_run_clear' = RunClear(LeavesOfTypeInbetween(tree))
          /\ pass_start_count' = Cardinality(tree.nodes)
          /\ IF LeavesWithoutParent(G) # {}
             THEN /\ pc' = "error"
                  /\ err' = "IndexError"
                  /\ parents_of_leaves' = {}
             ELSE /\ parents_of_leaves' = ParentsOfLeaves(G)
                  /\ pc' = IF parents_of_leaves' = {} THEN "prune_while" ELSE "prune_for"
                  /\ UNCHANGED err
    /\ UNCHANGED <<df, params, index, current_node_number, node_registry,
                   min_depth_required, paths_to_leaves, walk, profiles,
                   prune_calls, snap>>

\* One iteration of `for parent_id in parents_of_leaves`; a set is iterated
\* in no order the code chooses.
PruneParent ==
    /\ pc = "prune_for"
    /\ \E parent_id \in parents_of_leaves :
         /\ parents_of_leaves' = parents_of_leaves \ {parent_id}
         /\ IF parent_id \notin tree.nodes
            THEN /\ pc' = "error"
                 /\ err' = "KeyError"
                 /\ UNCHANGED <<tree, last_run_clear>>
            ELSE /\ pc' = IF parents_of_leaves' = {} THEN "prune_while" ELSE "prune_for"
                 /\ UNCHANGED err
                 /\ IF \/ ParentTooShallow(tree, parent_id, min_depth_required)
                       \/ NotAllChildrenLeaves(tree, parent_id)
                       \/ ~ChildrenShareParentType(tree, parent_id)
                    THEN UNCHANGED <<tree, last_run_clear>>
                    ELSE /\ tree' = RemoveNodes(tree, Children(tree, parent_id))
                         /\ last_run_clear' = FALSE
    /\ UNCHANGED <<df, params, index, current_node_number, node_registry,
                   min_depth_required, paths_to_leaves, walk, profiles,
                   prune_calls, snap, pass_start_count>>

\* The while test fails: prune_tree returns.
PruneReturn ==
    /\ pc = "prune_while"
    /\ last_run_clear
    /\ pc' = "pruned"
    /\ UNCHANGED <<err, df, params, index, current_node_number, node_registry,
                   tree, min_depth_required, last_run_clear, parents_of_leaves,
                   paths_to_leaves, walk, profiles, prune_calls, snap,
                   pass_start_count>>

\* ---------------------------------------- filter_leaves_under_minimum_depth
\* x for x in tree.nodes() if tree.out_degree(x) == 0 and tree.in_degree(x) == 1
ProfileLeaves(G) == {x \in G.nodes : OutDegree(G, x) = 0 /\ InDegree(G, x) = 1}

\* Mutant: the root is not counted, a leaf of exactly the required depth is
\* walked.
PathDeepEnoughBelowRoot(path, min_depth) == Len(path) - 1 > min_depth

\* Mutant: >= instead of >.
PathDeepEnoughOffByOne(path, min_depth) == Len(path) >= min_depth

\* len(path) > min_depth_required: continue
PathDeepEnough(path, min_depth) == Len(path) > min_depth

\* Mutant: a node with one child left counts as childless.
HasAtMostOneChild(G, node) == OutDegree(G, node) <= 1

\* Mutant: the out-degree is not looked at.
HasNoChildsUnchecked(G, node) == TRUE

\* number_of_childs == 0
HasNoChilds(G, node) == OutDegree(G, node) = 0

\* Mutant: only the leaf of the path is visited.
WalkLeafOnly(path) == <<path[Len(path)]>>

\* path[::-1]
WalkOrder(path) == Reverse(path)

\* filter_leaves_under_minimum_depth(tree, min_depth_required) is called
\* with the notebook's one BAO_PROFILES_MIN_DEPTH_REQUIRED: paths_to_leaves.
CallFilter ==
    /\ pc = "pruned"
    /\ snap' = tree
    /\ LET paths == {ShortestPath(tree, 0, x) : x \in ProfileLeaves(tree)}
       IN IF <<>> \in paths
          THEN /\ pc' = "error"
               /\ err' = "NodeNotFound"
               /\ UNCHANGED paths_to_leaves
          ELSE /\ pc' = "filter"
               /\ paths_to_leaves' = paths
               /\ UNCHANGED err
    /\ walk' = <<>>
    /\ UNCHANGED <<df, params, index, current_node_number, node_registry, tree,
                   min_depth_required, last_run_clear, parents_of_leaves,
                   profiles, prune_calls, pass_start_count>>

\* `for path in paths_to_leaves`: the next path is taken; the list is in
\* tree.nodes() order, and the model lets any order happen.
FilterPath ==
    /\ pc = "filter"
    /\ \E path \in paths_to_leaves :
         /\ paths_to_leaves' = paths_to_leaves \ {path}
         /\ IF PathDeepEnough(path, min_depth_required)
            THEN UNCHANGED <<pc, walk>>
            ELSE /\ pc' = "filter_walk"
                 /\ walk' = WalkOrder(path)
    /\ UNCHANGED <<err, df, params, index, current_node_number, node_registry,
                   tree, min_depth_required, last_run_clear, parents_of_leaves,
                   profiles, prune_calls, snap, pass_start_count>>

\* One iteration of `for node in path[::-1]`.  tree.out_degree of a node
\* that is not in the graph raises NetworkXError.
FilterWalk ==
    /\ pc = "filter_walk"
    /\ walk # <<>>
    /\ LET node == Head(walk)
       IN IF node \notin tree.nodes
          THEN /\ pc' = "error"
               /\ err' = "NetworkXError"
               /\ UNCHANGED tree
          ELSE /\ tree' = IF HasNoChilds(tree, node) THEN RemoveNode(tree, node) ELSE tree
               /\ pc' = IF Tail(walk) = <<>> THEN "filter" ELSE "filter_walk"
               /\ UNCHANGED err
    /\ walk' = Tail(walk)
    /\ UNCHANGED <<df, params, index, current_node_number, node_registry,
                   min_depth_required, last_run_clear, parents_of_leaves,
                   paths_to_leaves, profiles, prune_calls, snap,
                   pass_start_count>>

\* Every path was visited: the filter returns.
FilterReturn ==
    /\ pc = "filter"
    /\ paths_to_leaves = {}
    /\ pc' = "filtered"
    /\ UNCHANGED <<err, df, params, index, current_node_number, node_registry,
                   tree, min_depth_required, last_run_clear, parents_of_leaves,
                   paths_to_leaves, walk, profiles, prune_calls, snap,
                   pass_start_count>>

\* ------------------------------------------ export_profiles_to_dict_from_tree
\* profile_temp['features']: dimensions[fragment_index] -> key of the
\* fragment, for the fragments of path[1:] in order; a later assignment to
\* the same feature replaces the earlier one.
RECURSIVE ProfileFeatures(_, _, _, _, _)
ProfileFeatures(G, dimensions, path, i, acc) ==
    IF i > Len(path) THEN acc
    ELSE LET feature == dimensions[i - 1]
             value == G.attr[path[i]].key
         IN ProfileFeatures(G, dimensions, path, i + 1,
                [f \in DOMAIN acc \cup {feature} |->
                    IF f = feature THEN value ELSE acc[f]])

\* profile_temp for one path.
ProfileOf(G, dimensions, path) ==
    LET leaf_node == G.attr[path[Len(path)]]
    IN [type |-> leaf_node.profile_type,
        size |-> leaf_node.total_count,
        hit_counts |-> leaf_node.hit_counts,
        features |-> ProfileFeatures(G, dimensions, path, 2, <<>>)]

\* Mutant: the out_degree test is left out, every non-root node is exported.
InnerNodesInNodeOrder(G) == SortSeq(SetToSeq(G.nodes \ {0}), LAMBDA a, b : a < b)

\* The leaves in tree.nodes() order: ascending node number.
LeavesInNodeOrder(G) == SortSeq(SetToSeq(ProfileLeaves(G)), LAMBDA a, b : a < b)

\* profiles: index -> profile, indexes from 0.
ExportProfiles(G, dimensions) ==
    LET leaves == LeavesInNodeOrder(G)
    IN [i \in 0..(Len(leaves) - 1) |->
           ProfileOf(G, dimensions, ShortestPath(G, 0, leaves[i + 1]))]

\* A path longer than the feature list makes dimensions[fragment_index]
\* raise IndexError.
ExportFails(G, dimensions) ==
    \E x \in ProfileLeaves(G) :
        LET path == ShortestPath(G, 0, x)
        IN path = <<>> \/ Len(path) - 1 > Len(dimensions)

ExportProfilesToDict ==
    /\ pc = "filtered"
    /\ IF ExportFails(tree, features_ordered)
       THEN /\ pc' = "error"
            /\ err' = "IndexError"
            /\ UNCHANGED profiles
       ELSE /\ pc' = "exported"
            /\ profiles' = ExportProfiles(tree, features_ordered)
            /\ UNCHANGED err
    /\ UNCHANGED <<df, params, index, current_node_number, node_registry, tree,
                   min_depth_required, last_run_clear, parents_of_leaves,
                   paths_to_leaves, walk, prune_calls, snap, pass_start_count>>

Next ==
    \/ LoadRecord
    \/ CallBuildTree
    \/ BuildLayer
    \/ BuildReturn
    \/ CallPruneTree
    \/ PrunePass
    \/ PruneParent
    \/ PruneReturn
    \/ CallFilter
    \/ FilterPath
    \/ FilterWalk
    \/ FilterReturn
    \/ ExportProfilesToDict

Spec == Init /\ [][Next]_vars

\* build_tree over a table that grows while the layers are aggregated.
NextTableGrows ==
    \/ LoadRecord
    \/ CallBuildTree
    \/ BuildLayer
    \/ BuildReturn
    \/ TableAppend

SpecTableGrows == Init /\ [][NextTableGrows]_vars

\* The notebook with three dimensions, from the load to the filter.
NextThreeFeatures ==
    \/ LoadRecordOfThree
    \/ BuildTreeOfThree
    \/ CallPruneTree
    \/ PrunePass
    \/ PruneParent
    \/ PruneReturn
    \/ CallFilter
    \/ FilterPath
    \/ FilterWalk
    \/ FilterReturn

SpecThreeFeatures == Init /\ [][NextThreeFeatures]_vars

\* build_tree called with any arguments.
NextAnyArguments ==
    \/ LoadRecord
    \/ CallBuildTreeAnyArguments
    \/ BuildLayer
    \/ BuildReturn

SpecAnyArguments == Init /\ [][NextAnyArguments]_vars
\* ------------------------------------------------------------ properties
PruneStates == {"prune_while", "prune_for", "pruned"}
FilterStates == {"filter", "filter_walk", "filtered"}

\* A node number below the largest one is missing: a node was removed.
SomeNodeRemoved(G) == \E n \in G.nodes : \E k \in 0..n : k \notin G.nodes

NonRootLeaves(G) == Leaves(G) \ {0}

\* C1: prune_tree, the filter and the export run to the end without raising
\* an error on every built tree, and with no profile left the export
\* returns the empty mapping.
C1_PipelineCompletes ==
    /\ ~(pc = "error" /\ prune_calls > 0)
    /\ (pc = "exported" /\ ProfileLeaves(tree) = {}) => profiles = <<>>

\* C2: after prune_tree and the filter, no exported profile has type
\* inbetween.
C2_NoInbetweenProfile ==
    pc = "exported" => \A i \in DOMAIN profiles : profiles[i].type # "inbetween"

\* C2 witness: profiles were exported from a tree that was built with
\* inbetween nodes below the root and that the filter or the pruner cut.
C2_Witness ==
    /\ pc = "exported"
    /\ DOMAIN profiles # {}
    /\ SomeNodeRemoved(tree)
    /\ \E n \in tree.nodes \ {0} : tree.attr[n].profile_type = "inbetween"

\* C3: after the filter every non-root leaf has depth >= min_depth_required
\* and every exported profile has at least that many feature conditions.
C3_LeavesDeepEnough ==
    /\ pc \in {"filtered", "exported"} =>
         \A x \in NonRootLeaves(tree) : tree.attr[x].depth >= min_depth_required
    /\ pc = "exported" =>
         \A i \in DOMAIN profiles :
             Cardinality(DOMAIN profiles[i].features) >= min_depth_required

\* C3 witness: the filter removed a shallow profile and a profile survived.
C3_Witness ==
    /\ pc = "exported"
    /\ DOMAIN profiles # {}
    /\ tree.nodes # snap.nodes

\* C4: a second prune_tree call with the same min_depth_required on the
\* result of the first removes nothing and leaves the tree as it was.
C4_PruneIdempotent ==
    (pc \in PruneStates \cup {"error"} /\ prune_calls >= 2) =>
        /\ pc # "error"
        /\ tree = snap

\* C4 witness: the second call returned on a tree the first call had cut.
C4_Witness ==
    /\ pc = "pruned"
    /\ prune_calls = 2
    /\ SomeNodeRemoved(tree)
    /\ Cardinality(tree.nodes) > 1

\* C5: a pass that makes the while loop run again has removed a node.
C5_LoopingPassRemoves ==
    (pc = "prune_while" /\ pass_start_count >= 0 /\ ~last_run_clear)
        => Cardinality(tree.nodes) < pass_start_count

\* C5 witness: a pass ended with last_run_clear False and left nodes below
\* the root, so another pass follows.
C5_Witness ==
    /\ pc = "prune_while"
    /\ pass_start_count >= 0
    /\ ~last_run_clear
    /\ Cardinality(tree.nodes) > 1

\* C6: prune_tree never removes the root, node 0.
C6_PruneKeepsRoot ==
    (pc \in PruneStates \/ (pc = "error" /\ prune_calls > 0)) => 0 \in tree.nodes

\* C7: filter_leaves_under_minimum_depth never removes the root.
C7_FilterKeepsRoot ==
    (pc \in FilterStates /\ 0 \in snap.nodes) => 0 \in tree.nodes

\* C8: the filter removes a node only when it has no children at that
\* moment, and every leaf that was deep enough before the filter is still
\* there afterwards with every node of its path from the root.
C8_FilterRemovesOnlyLeaves ==
    /\ [][pc = "filter_walk" =>
            \A n \in tree.nodes \ tree'.nodes : OutDegree(tree, n) = 0]_vars
    /\ [](pc \in FilterStates =>
            \A x \in NonRootLeaves(snap) :
                snap.attr[x].depth >= min_depth_required =>
                    LET path == ShortestPath(snap, 0, x)
                    IN /\ path # <<>>
                       /\ \A i \in 1..Len(path) :
                            /\ path[i] \in tree.nodes
                            /\ i > 1 => <<path[i - 1], path[i]>> \in tree.edges)

\* C8 witness: the filter removed a shallow profile next to a deep one.
C8_Witness ==
    /\ pc = "filtered"
    /\ tree.nodes # snap.nodes
    /\ \E x \in NonRootLeaves(snap) : snap.attr[x].depth >= min_depth_required

\* C9: the built tree is a rooted tree and depth is the number of edges
\* from the root.
C9_RootedTreeWithDepths ==
    pc \in {"build", "built"} =>
        /\ 0 \in tree.nodes
        /\ InDegree(tree, 0) = 0
        /\ \A n \in tree.nodes \ {0} : InDegree(tree, n) = 1
        /\ \A n \in tree.nodes :
             /\ ShortestPath(tree, 0, n) # <<>>
             /\ tree.attr[n].depth = Len(ShortestPath(tree, 0, n)) - 1

\* C9 witness: build_tree returned a tree with a node on the last layer
\* and a parent of two children.
C9_Witness ==
    /\ pc = "built"
    /\ \E n \in tree.nodes : tree.attr[n].depth = NumFeatures
    /\ \E n \in tree.nodes : OutDegree(tree, n) >= 2

\* The (feature, value) items of a combination of the first d features.
Combinations(d) ==
    {[i \in 1..d |-> <<features_ordered[i], v[i]>>] : v \in [1..d -> FeatureValues]}

\* C10: every non-root node is registered under a combination that is its
\* parent's combination plus one (feature, value) item for the feature at
\* index depth - 1, and its parent is the node registered for the
\* combination without that item.
C10_ChildExtendsParent ==
    pc = "build" =>
        \A n \in tree.nodes \ {0} :
            \E items \in Combinations(tree.attr[n].depth) :
                LET d == tree.attr[n].depth
                    parent_items == SubSeq(items, 1, d - 1)
                IN /\ NodeHash(items) \in DOMAIN node_registry
                   /\ node_registry[NodeHash(items)] = n
                   /\ items[d][1] = features_ordered[d]
                   /\ tree.attr[n].key = ToString(items[d][2])
                   /\ NodeHash(parent_items) \in DOMAIN node_registry
                   /\ Predecessors(tree, n) = {node_registry[NodeHash(parent_items)]}
                   /\ \A p \in Predecessors(tree, n) : tree.attr[p].depth = d - 1

\* C10 witness: the last layer is built and holds two nodes with
\* different parents.
C10_Witness ==
    /\ pc = "build"
    /\ index = Len(features_ordered)
    /\ \E a, b \in tree.nodes :
         /\ tree.attr[a].depth = NumFeatures
         /\ tree.attr[b].depth = NumFeatures
         /\ Predecessors(tree, a) # Predecessors(tree, b)

\* C11: in the built tree and after every pruning and filtering step, no two
\* children of one parent carry the same key: the edges are as many as the
\* (parent, key of the child) pairs they give.
C11_SiblingKeysUnique ==
    pc # "load" =>
        Cardinality({<<e[1], tree.attr[e[2]].key>> : e \in tree.edges})
            = Cardinality(tree.edges)

\* C11 witness: after the filter a parent below the root still has two
\* children.
C11_Witness ==
    /\ pc = "filtered"
    /\ \E n \in tree.nodes \ {0} : OutDegree(tree, n) >= 2

\* C12: with every layer aggregated from the one dataset df under the one
\* minimal_groupsize, build_tree never fails on a missing parent (no error
\* at all before prune_tree is called), and a layer without a qualifying
\* combination leaves the tree without nodes at that depth and deeper.
C12_ParentLookupSucceeds ==
    /\ prune_calls = 0 => (err = "none" /\ pc # "error")
    /\ pc = "build" =>
          \A d \in 1..index :
              FeatureCombinations(df, FeaturesToCurrentDepth(d), params) = <<>> =>
                  \A n \in tree.nodes : tree.attr[n].depth < d

\* C12 witness: all layers are built from a dataset with a qualifying
\* combination at depth 1 and none at the last depth: every parent lookup
\* of layer 1 succeeded and the empty last layer added nothing.
C12_Witness ==
    /\ pc = "build"
    /\ index = Len(features_ordered)
    /\ err = "none"
    /\ \E n \in tree.nodes : tree.attr[n].depth = 1
    /\ FeatureCombinations(df, features_ordered, params) = <<>>

\* The combinations of the layer about to be built whose prefix of one
\* feature less has no registered node.
OrphanCombinations ==
    LET d == CurrentDepth(index)
        feats == FeaturesToCurrentDepth(d)
        rows == FeatureCombinations(df, feats, params)
    IN {CombinationValues(rows[i], feats) : i \in
           {j \in 1..Len(rows) :
               NodeHash(SubSeq(CombinationValues(rows[j], feats), 1, d - 1))
                   \notin DOMAIN node_registry}}

\* C13: when a layer holds a combination whose prefix has no registered
\* node, building that layer ends build_tree with a KeyError: the
\* combination is not registered and gets no node (it is neither skipped
\* nor hung under another node), and no later step returns a tree.
C13_OrphanAborts ==
    /\ [][(pc = "build" /\ index' = index + 1 /\ OrphanCombinations # {}) =>
             /\ pc' = "error"
             /\ err' = "KeyError"
             /\ current_node_number' \notin tree'.nodes
             /\ \A items \in OrphanCombinations :
                    NodeHash(items) \notin DOMAIN node_registry']_vars
    /\ [][pc = "error" => pc' = "error"]_vars

\* C13 witness: build_tree has stopped on the lookup of a parent.
C13_Witness ==
    /\ pc = "error"
    /\ err = "KeyError"
    /\ prune_calls = 0
    /\ index = Len(features_ordered)

\* The chance condition and the risk condition of a node, from its stored
\* statistics.
ChanceCondition(a) ==
    /\ 100 * a.hit_counts <= params.chance_max_hit * a.total_count
    /\ 100 * a.refusal_count <= params.chance_max_refusal * a.total_count

RiskCondition(a) == 100 * a.hit_counts >= params.risk_min_hit * a.total_count

\* C14: every non-root node has one of the three profile types, decided in
\* fixed order: chance when the chance condition holds (also when the risk
\* condition holds too), else risk when the risk condition holds, else
\* inbetween.
C14_ClassificationOrder ==
    pc \in {"build", "built"} =>
        \A n \in tree.nodes \ {0} :
            LET a == tree.attr[n]
            IN /\ a.profile_type \in {"chance", "risk", "inbetween"}
               /\ ChanceCondition(a) => a.profile_type = "chance"
               /\ (~ChanceCondition(a) /\ RiskCondition(a)) => a.profile_type = "risk"
               /\ (~ChanceCondition(a) /\ ~RiskCondition(a)) =>
                      a.profile_type = "inbetween"

\* C14 witness: a built tree with a node that meets the chance and the risk
\* condition, next to a risk node and an inbetween node.
C14_Witness ==
    /\ pc = "built"
    /\ \E n \in tree.nodes \ {0} :
         ChanceCondition(tree.attr[n]) /\ RiskCondition(tree.attr[n])
    /\ \E n \in tree.nodes \ {0} : tree.attr[n].profile_type = "risk"
    /\ \E n \in tree.nodes \ {0} : tree.attr[n].profile_type = "inbetween"

\* The orders in which the rows of a set can be held.
RECURSIVE Orders(_)
Orders(S) ==
    IF S = {} THEN {<<>>}
    ELSE UNION {{<<x>> \o o : o \in Orders(S \ {x})} : x \in S}

\* The values of the combination a node is registered under.
NodeValues(n) ==
    LET items == CHOOSE c \in Combinations(tree.attr[n].depth) :
                     /\ NodeHash(c) \in DOMAIN node_registry
                     /\ node_registry[NodeHash(c)] = n
    IN [i \in 1..Len(items) |-> items[i][2]]

\* The layer build_tree adds next when Spark holds the rows in this order.
LayerBuiltFrom(rows) ==
    AddRows(SortRows(rows), FeaturesToCurrentDepth(CurrentDepth(index)),
            CurrentDepth(index),
            [tree |-> tree, reg |-> node_registry,
             num |-> current_node_number, err |-> "none"])

\* C15: node ids are 0, 1, 2, ... in depth-major order and, within a layer,
\* in ascending lexicographic order of the value tuples, so every parent id
\* is below its children's ids; and the layer added next is the same for
\* every order in which the rows are held before the sort.
C15_DeterministicBuild ==
    pc = "build" =>
        /\ tree.nodes = 0..(Cardinality(tree.nodes) - 1)
        /\ \A e \in tree.edges : e[1] < e[2]
        /\ \A a, b \in tree.nodes :
              a < b =>
                /\ tree.attr[a].depth <= tree.attr[b].depth
                /\ tree.attr[a].depth = tree.attr[b].depth =>
                       LexLess(NodeValues(a), NodeValues(b))
        /\ index < Len(features_ordered) =>
              \E held \in {GroupRows(df, FeaturesToCurrentDepth(CurrentDepth(index)),
                                      params)} :
                  \E layer \in {LayerBuiltFrom(SetToSeq(held))} :
                      \A o \in Orders(held) : LayerBuiltFrom(o) = layer

\* C15 witness: layer 1 is built with two nodes and the rows of layer 2,
\* three or more, can be held in several orders.
C15_Witness ==
    /\ pc = "build"
    /\ index = 1
    /\ Cardinality({n \in tree.nodes : tree.attr[n].depth = 1}) = 2
    /\ Cardinality(GroupRows(df, features_ordered, params)) >= 3

\* The profile p describes the leaf: its features map the first depth
\* feature names to the keys of the non-root nodes on the path from the root,
\* and its type, size and hit counts are the leaf's.
DescribesLeaf(p, leaf) ==
    LET a == tree.attr[leaf]
        path == ShortestPath(tree, 0, leaf)
    IN /\ Len(path) = a.depth + 1
       /\ DOMAIN p.features = {features_ordered[i] : i \in 1..a.depth}
       /\ Cardinality(DOMAIN p.features) = a.depth
       /\ \A i \in 1..a.depth :
             p.features[features_ordered[i]] = tree.attr[path[i + 1]].key
       /\ p.type = a.profile_type
       /\ p.size = a.total_count
       /\ p.hit_counts = a.hit_counts

\* C16: the export holds exactly one profile per non-root leaf, indexed
\* 0..n-1, and each profile describes its leaf: depth-many features, the
\* i-th feature name paired with the key of the i-th non-root node of the
\* path, and the leaf's type, size and hit counts.
C16_ExportDescribesLeaves ==
    pc = "exported" =>
        /\ DOMAIN profiles = 0..(Cardinality(NonRootLeaves(tree)) - 1)
        /\ \A leaf \in NonRootLeaves(tree) :
              Cardinality({i \in DOMAIN profiles : DescribesLeaf(profiles[i], leaf)}) = 1
        /\ \A i \in DOMAIN profiles :
              \E leaf \in NonRootLeaves(tree) : DescribesLeaf(profiles[i], leaf)

\* C16 witness: an export of two or more profiles, one of full depth and
\* one of a single feature.
C16_Witness ==
    /\ pc = "exported"
    /\ \E i, j \in DOMAIN profiles :
         /\ Cardinality(DOMAIN profiles[i].features) = NumFeatures
         /\ Cardinality(DOMAIN profiles[j].features) = 1

\* Arguments the specification calls invalid: a threshold outside 0..100 or
\* a minimal_groupsize that is not positive.
InvalidConfiguration ==
    \/ params.minimal_groupsize <= 0
    \/ \E t \in {params.chance_max_hit, params.chance_max_refusal,
                  params.risk_min_hit} : t < 0 \/ t > 100

\* C17: a call of build_tree with an invalid configuration ends in an error
\* and creates no tree node.
C17_InvalidConfigurationRejected ==
    (pc # "load" /\ InvalidConfiguration) =>
        (pc = "error" /\ tree.nodes = {})

\* C18: once the tree is built, every step of prune_tree and of the filter
\* changes it by removing nodes only: no node and no edge is added, and a
\* surviving node keeps its edges to surviving nodes (so its parent edge)
\* and all its attributes (depth, key, profile_type, statistics); the
\* export leaves the tree as it is.
C18_RemovalOnly ==
    [][pc \notin {"load", "build"} =>
          /\ tree'.nodes \subseteq tree.nodes
          /\ tree'.edges = {e \in tree.edges :
                               e[1] \in tree'.nodes /\ e[2] \in tree'.nodes}
          /\ \A n \in tree'.nodes : tree'.attr[n] = tree.attr[n]
          /\ pc = "filtered" => tree' = tree]_vars

\* C18 witness: profiles are exported from a tree that lost nodes and kept
\* a node below the root.
C18_Witness ==
    /\ pc = "exported"
    /\ SomeNodeRemoved(tree)
    /\ tree.nodes \ {0} # {}
    /\ DOMAIN profiles # {}

\* The parent of n in G has at least the required depth and only leaf
\* children, all of the parent's profile type.
HomogeneousFamily(G, n, min_depth) ==
    \E p \in Predecessors(G, n) :
        /\ G.attr[p].depth >= min_depth
        /\ \A c \in Successors(G, p) :
              /\ OutDegree(G, c) = 0
              /\ G.attr[c].profile_type = G.attr[p].profile_type

\* C19: every node a step of prune_tree removes is, in the tree before that
\* step, a leaf that is inbetween or the child of a parent of depth >=
\* min_depth_required whose children are all leaves of the parent's type;
\* so a chance or risk leaf with another type than its parent, with a
\* parent above the required depth or with a non-leaf sibling stays.
C19_RemovalJustified ==
    [][(pc = "prune_while" \/ pc = "prune_for") =>
          \A n \in tree.nodes \ tree'.nodes :
              /\ OutDegree(tree, n) = 0
              /\ \/ tree.attr[n].profile_type = "inbetween"
                 \/ HomogeneousFamily(tree, n, min_depth_required)]_vars

\* C19 witness: prune_tree has returned after removing a chance or risk
\* node, and a chance or risk leaf of another type than its parent, below a
\* parent of the required depth, is still there.
C19_Witness ==
    /\ pc = "pruned"
    /\ \E n \in snap.nodes \ tree.nodes : snap.attr[n].profile_type # "inbetween"
    /\ \E e \in tree.edges :
         /\ OutDegree(tree, e[2]) = 0
         /\ tree.attr[e[1]].depth >= min_depth_required
         /\ tree.attr[e[2]].profile_type # tree.attr[e[1]].profile_type

\* C20: when prune_tree has returned, neither rule applies any more: no
\* leaf is inbetween, and no parent of depth >= min_depth_required has only
\* leaf children that all share its profile type.
C20_PrunedIsFixedPoint ==
    pc = "pruned" =>
        /\ \A leaf \in Leaves(tree) : tree.attr[leaf].profile_type # "inbetween"
        /\ \A p \in tree.nodes :
              ~ /\ Successors(tree, p) # {}
                /\ tree.attr[p].depth >= min_depth_required
                /\ \A c \in Successors(tree, p) :
                      /\ OutDegree(tree, c) = 0
                      /\ tree.attr[c].profile_type = tree.attr[p].profile_type

\* C20 witness: the first call of prune_tree has returned a tree with nodes
\* below the root after removing inbetween leaves as well as chance or risk
\* children.
C20_Witness ==
    /\ pc = "pruned"
    /\ prune_calls = 1
    /\ tree.nodes \ {0} # {}
    /\ \E n \in snap.nodes \ tree.nodes : snap.attr[n].profile_type = "inbetween"
    /\ \E n \in snap.nodes \ tree.nodes : snap.attr[n].profile_type # "inbetween"

\* C21: whatever order the parents are visited in within the passes,
\* prune_tree ends as it does when they are visited in ascending order: it
\* returns the same tree, and it raises only if that run raises too.
C21_PruneOrderIndependent ==
    /\ [](pc = "pruned" =>
             \E r \in {PruneAscending(snap, min_depth_required)} :
                 r.ok /\ r.tree = tree)
    /\ [][((pc = "prune_while" \/ pc = "prune_for") /\ pc' = "error") =>
             ~PruneAscending(snap, min_depth_required).ok]_vars

\* C21 witness: in a pass that follows removals, a parent and its own
\* parent both wait to be visited, so the order decides in which pass the
\* upper one finds all its children to be leaves.
C21_Witness ==
    /\ pc = "prune_for"
    /\ tree # snap
    /\ \E e \in tree.edges :
         /\ e[1] \in parents_of_leaves
         /\ e[2] \in parents_of_leaves
         /\ tree.attr[e[1]].depth >= min_depth_required

\* The nodes of a sequence of node numbers.
NodesOf(path) == {path[i] : i \in 1..Len(path)}

SameTypeRuleParents ==
    {p \in snap.nodes :
        /\ snap.attr[p].profile_type # "inbetween"
        /\ \E c \in Successors(snap, p) :
              /\ c \notin tree.nodes
              /\ snap.attr[c].profile_type = snap.attr[p].profile_type}

\* The leaves of at least the required depth in the tree the filter was
\* called on are profile leaves of the tree it returns.
DeepLeavesSurviveFilter ==
    pc = "filtered" =>
        \A x \in ProfileLeaves(snap) :
            snap.attr[x].depth >= min_depth_required => x \in ProfileLeaves(tree)

\* C23 as stated: when prune_tree has returned, every parent whose children
\* it removed under the same-type rule has depth >= min_depth_required and
\* is a leaf of the tree, and the filter called with the same
\* min_depth_required keeps every such leaf as a profile leaf.
C23_PrunedParentIsProfile ==
    /\ pc = "pruned" =>
          \A p \in SameTypeRuleParents :
              /\ snap.attr[p].depth >= min_depth_required
              /\ p \in tree.nodes
              /\ OutDegree(tree, p) = 0
    /\ DeepLeavesSurviveFilter

\* C23 amended: every parent whose children prune_tree removed under the
\* same-type rule has depth >= min_depth_required and, if prune_tree has
\* not removed it in turn before it returns, is a leaf of the tree; the
\* filter called with the same min_depth_required keeps every leaf of that
\* depth as a profile leaf.
C23_PrunedParentLeftIsProfile ==
    /\ pc = "pruned" =>
          \A p \in SameTypeRuleParents :
              /\ snap.attr[p].depth >= min_depth_required
              /\ p \in tree.nodes => OutDegree(tree, p) = 0
    /\ DeepLeavesSurviveFilter

\* C23 witness: prune_tree has returned; one parent lost its children under
\* the same-type rule and is a leaf of the tree, another one lost its
\* children under that rule and was then removed itself.
C23_Witness ==
    /\ pc = "pruned"
    /\ \E p, q \in SameTypeRuleParents :
         /\ p \notin tree.nodes
         /\ q \in tree.nodes
         /\ OutDegree(tree, q) = 0
====
